---- MODULE Spec2Model ----
(***************************************************************************)
(* Model of src/automata.py, class AdvancedCellularAutomaton: a two-buffer *)
(* grid of cell values, a neighbourhood sampler, pluggable update rules,   *)
(* the synchronous update step and the frame loop of run().                *)
(*                                                                         *)
(* Cell values are floats in the source; here they are exact rationals     *)
(* <<numerator, denominator>> in lowest terms with a positive denominator, *)
(* plus the value NaN that numpy produces for the mean of an empty array.  *)
(* The grids are stepped in real arithmetic; the rounding of floating      *)
(* point is modelled for the diffusion rule, in SpecFloat, on a            *)
(* significand of MantissaBits bits.                                       *)
(*                                                                         *)
(* numpy arrays are objects: the attributes current_grid and next_grid     *)
(* hold references.  The variable heap maps an object identity to the      *)
(* array's contents, and current_grid / next_grid hold identities, so a    *)
(* reference swap and a value copy are different things in the model.      *)
(***************************************************************************)
EXTENDS Integers, Sequences, FiniteSets, TLC

VARIABLES
    rows,           \* self.rows
    cols,           \* self.cols
    state_min,      \* self.state_min
    state_max,      \* self.state_max
    heap,           \* identity -> contents of the numpy array with that identity
    current_grid,   \* self.current_grid (an identity)
    next_grid,      \* self.next_grid (an identity)
    rule_func,      \* self.rule_func
    cmap,           \* self.cmap.name
    pc,             \* position of the caller / of run()
    running,        \* local variable running of run()
    paused,         \* local variable paused of run()
    frame,          \* what the current iteration of the frame loop has done:
                    \* the event its for loop handled last, the update() and
                    \* draw() calls it made
    last,           \* the last call that used the grids, and its outcome
    nupdates        \* number of update() calls made so far

vars == <<rows, cols, state_min, state_max, heap, current_grid, next_grid,
          rule_func, cmap, pc, running, paused, frame, last, nupdates>>

(***************************************************************************)
(* Bounds of the model.                                                    *)
(***************************************************************************)
MaxDim == 3          \* rows and cols range over 1..MaxDim
MaxStepDim == 2      \* rows and cols of the grids every rule is stepped on
MaxRunDim == 2       \* cols of the one-row grids the frame loop is run on
MaxUpdates == 2      \* update() is called at most MaxUpdates times
MaxDraw == 1         \* a Poisson draw is in 0..MaxDraw
MaxDrawCells == 2    \* cells of the largest grid the stochastic rule is set on
MantissaBits == 8    \* bits of the significand where float rounding is modelled
MaxNeighbors == 2    \* length of the neighbors argument of a direct rule call
MaxRadius == 2       \* radius argument of a direct get_neighborhood call

(***************************************************************************)
(* Rational arithmetic with NaN.                                           *)
(***************************************************************************)
RECURSIVE GCD(_, _)
GCD(a, b) == IF b = 0 THEN a ELSE GCD(b, a % b)

Abs(n) == IF n < 0 THEN -n ELSE n

NaN == <<0, 0>>

IsNaN(v) == v[2] = 0

\* the rational n/d in lowest terms; d = 0 gives NaN
Rat(n, d) ==
    IF d = 0 THEN NaN
    ELSE LET g == GCD(Abs(n), Abs(d))
             s == IF d < 0 THEN -1 ELSE 1
         IN  <<(s * n) \div g, (s * d) \div g>>

Zero == Rat(0, 1)

\* the numerators of x and y over their least common denominator
OverCommon(x, y) ==
    LET g == GCD(x[2], y[2])
    IN  <<x[1] * (y[2] \div g), y[1] * (x[2] \div g), x[2] * (y[2] \div g)>>

RAdd(x, y) ==
    IF IsNaN(x) \/ IsNaN(y) THEN NaN
    ELSE LET t == OverCommon(x, y) IN Rat(t[1] + t[2], t[3])

RMul(x, y) ==
    IF IsNaN(x) \/ IsNaN(y) THEN NaN
    ELSE LET g1 == GCD(Abs(x[1]), y[2])
             g2 == GCD(Abs(y[1]), x[2])
         IN  Rat((x[1] \div g1) * (y[1] \div g2), (x[2] \div g2) * (y[2] \div g1))

\* x < y on floats: any comparison with NaN is false
RLt(x, y) ==
    /\ ~IsNaN(x)
    /\ ~IsNaN(y)
    /\ LET t == OverCommon(x, y) IN t[1] < t[2]

RLe(x, y) ==
    /\ ~IsNaN(x)
    /\ ~IsNaN(y)
    /\ LET t == OverCommon(x, y) IN t[1] <= t[2]

RECURSIVE SumSeq(_)
SumSeq(s) == IF s = <<>> THEN Zero ELSE RAdd(Head(s), SumSeq(Tail(s)))

\* np.mean: sum / len, and NaN (with a RuntimeWarning, no exception) when empty
Mean(s) == RMul(SumSeq(s), Rat(1, Len(s)))

(***************************************************************************)
(* Floating point.  The operators above give the value of an expression    *)
(* in real arithmetic.  The ones below give what binary floating point     *)
(* computes for it: every operation returns the representable number       *)
(* nearest to the real result, ties to the even significand, as IEEE 754    *)
(* double precision does, on a significand of MantissaBits bits instead of *)
(* 53 and with no bound on the exponent.  Defined for values >= 0.         *)
(***************************************************************************)
RECURSIVE Pow2(_)
Pow2(n) == IF n = 0 THEN 1 ELSE 2 * Pow2(n - 1)

\* n / d rounded to the nearest integer, halves to the even one
RoundHalfEven(n, d) ==
    LET q == n \div d
        r == n % d
    IN  IF 2 * r > d \/ (2 * r = d /\ q % 2 = 1) THEN q + 1 ELSE q

\* n / d > 0 rounded to MantissaBits significant bits: n * up / (d * down)
\* is scaled into [2^(MantissaBits-1), 2^MantissaBits) and rounded there
RECURSIVE FlNorm(_, _, _, _)
FlNorm(n, d, up, down) ==
    IF n * up >= d * down * Pow2(MantissaBits)
    THEN FlNorm(n, d, up, down * 2)
    ELSE IF n * up < d * down * Pow2(MantissaBits - 1)
    THEN FlNorm(n, d, up * 2, down)
    ELSE Rat(RoundHalfEven(n * up, d * down) * down, up)

\* the float nearest to x
Fl(x) ==
    IF IsNaN(x) THEN NaN
    ELSE IF x[1] = 0 THEN Zero
    ELSE FlNorm(x[1], x[2], 1, 1)

FAdd(x, y) == Fl(RAdd(x, y))

FMul(x, y) == Fl(RMul(x, y))

\* res = 0.; for i in range(n): res += a[i]
RECURSIVE FSumLoop(_, _, _)
FSumLoop(res, s, k) ==
    IF k > Len(s) THEN res ELSE FSumLoop(FAdd(res, s[k]), s, k + 1)

\* np.add.reduce on a float64 array of at most 8 elements: a plain loop for
\* fewer than 8, and for 8 the pairwise tree of numpy's summation
FSum(s) ==
    IF Len(s) = 8
    THEN FAdd(FAdd(FAdd(s[1], s[2]), FAdd(s[3], s[4])),
              FAdd(FAdd(s[5], s[6]), FAdd(s[7], s[8])))
    ELSE FSumLoop(Zero, s, 1)

\* np.mean: the sum divided by the count
FMean(s) == Fl(RMul(FSum(s), Rat(1, Len(s))))

(***************************************************************************)
(* Grids.                                                                  *)
(***************************************************************************)
Cells == {<<r, c>> : r \in 0..(rows - 1), c \in 0..(cols - 1)}

CellsOf(nr, nc) == {<<r, c>> : r \in 0..(nr - 1), c \in 0..(nc - 1)}

\* variant: np.full((cols, rows), value)
Full_transposed(nr, nc, value) == [cell \in CellsOf(nc, nr) |-> value]

\* np.full((rows, cols), value)
Full(nr, nc, value) == [cell \in CellsOf(nr, nc) |-> value]

\* np.zeros_like(grid)
ZerosLike(grid) == [cell \in DOMAIN grid |-> Zero]

\* a freed array
Free == <<>>

Ids == 1..3

\* identity of a newly allocated array: one that no live array has
NewId(live) == CHOOSE i \in Ids : i \notin live /\ \A j \in Ids \ live : i <= j

\* the values np.random.uniform(low, high) is sampled at: low <= v < high
Samples == {Rat(0, 1), Rat(1, 2), Rat(1, 1)}

UniformSamples(low, high) == {v \in Samples : RLe(low, v) /\ RLt(v, high)}

\* np.random.uniform(low, high, size=(nr, nc)): every cell is drawn
\* independently; the model keeps the grids whose cells are all equal and
\* those in which one cell differs from the others
HotSets(cells) == {{}} \cup {{cell} : cell \in cells}

RandomGrids(nr, nc, low, high) ==
    { [cell \in CellsOf(nr, nc) |-> IF cell \in t[3] THEN t[2] ELSE t[1]] :
        t \in UniformSamples(low, high) \X UniformSamples(low, high)
                \X HotSets(CellsOf(nr, nc)) }

(***************************************************************************)
(* get_neighborhood.                                                       *)
(***************************************************************************)
\* variant: the loop over j is the outer loop
Offsets_transposed(radius) ==
    LET w == 2 * radius + 1
    IN  [k \in 1..(w * w) |-> <<((k - 1) % w) - radius, ((k - 1) \div w) - radius>>]

\* variant: range(-radius, radius) in both loops
Offsets_short(radius) ==
    LET w == 2 * radius
    IN  [k \in 1..(w * w) |-> <<((k - 1) \div w) - radius, ((k - 1) % w) - radius>>]

\* the offsets (i, j) in the order of the two nested range() loops
Offsets(radius) ==
    LET w == 2 * radius + 1
    IN  [k \in 1..(w * w) |-> <<((k - 1) \div w) - radius, ((k - 1) % w) - radius>>]

RECURSIVE NeighborLoop(_, _, _, _, _, _)
NeighborLoop(grid, row, col, offs, k, neighbors) ==
    IF k > Len(offs) THEN neighbors
    ELSE LET i == offs[k][1]
             j == offs[k][2]
             r == row + i
             c == col + j
         IN  IF i = 0 /\ j = 0
             THEN NeighborLoop(grid, row, col, offs, k + 1, neighbors)
             ELSE IF 0 <= r /\ r < rows /\ 0 <= c /\ c < cols
                  THEN NeighborLoop(grid, row, col, offs, k + 1,
                                    Append(neighbors, grid[<<r, c>>]))
                  ELSE NeighborLoop(grid, row, col, offs, k + 1, neighbors)

\* variant: the sampler reads the buffer being written
get_neighborhood_reads_next(h, row, col, radius) ==
    NeighborLoop(h[next_grid], row, col, Offsets(radius), 1, <<>>)

\* get_neighborhood(row, col, radius) evaluated while the arrays hold h
get_neighborhood(h, row, col, radius) ==
    NeighborLoop(h[current_grid], row, col, Offsets(radius), 1, <<>>)

(***************************************************************************)
(* Rules.  A rule evaluation either returns a value or raises.             *)
(***************************************************************************)
Returns(v) == [raised |-> FALSE, value |-> v]

Raises == [raised |-> TRUE, value |-> NaN]

\* variant: the two weights exchanged
default_diffusion_rule_swapped(cell_value, neighbors) ==
    Returns(RAdd(RMul(Rat(1, 10), cell_value), RMul(Rat(9, 10), Mean(neighbors))))

default_diffusion_rule(cell_value, neighbors) ==
    Returns(RAdd(RMul(Rat(9, 10), cell_value), RMul(Rat(1, 10), Mean(neighbors))))

\* variant: the weight of the neighbors' mean is 0.2
default_diffusion_rule_float_heavy(cell_value, neighbors) ==
    Returns(FAdd(FMul(Fl(Rat(9, 10)), cell_value),
                 FMul(Fl(Rat(2, 10)), FMean(neighbors))))

\* default_diffusion_rule as float arithmetic computes it: the literals 0.9
\* and 0.1 are the floats nearest to them, and each of the two products,
\* the mean and the sum is rounded
default_diffusion_rule_float(cell_value, neighbors) ==
    Returns(FAdd(FMul(Fl(Rat(9, 10)), cell_value),
                 FMul(Fl(Rat(1, 10)), FMean(neighbors))))

attenuation == Rat(3, 100)

\* TRUE when X_diffusion_rule calls np.random.poisson for these arguments
XDraws(cell_value, neighbors) ==
    LET live_neighbors == SumSeq(neighbors)
    IN  IF RLt(Rat(1, 2), cell_value) /\ RLt(cell_value, Rat(3, 2))
        THEN RLt(Rat(3, 2), live_neighbors) /\ RLt(live_neighbors, Rat(7, 2))
        ELSE RLt(Rat(3, 1), live_neighbors)

\* variant: outside the band the draw is kept when live_neighbors < 3
X_diffusion_rule_spontaneous(cell_value, neighbors, k) ==
    LET live_neighbors == SumSeq(neighbors)
        valx == IF RLt(Rat(1, 2), cell_value) /\ RLt(cell_value, Rat(3, 2))
                THEN IF RLt(Rat(3, 2), live_neighbors) /\ RLt(live_neighbors, Rat(7, 2))
                     THEN Rat(k, 4) ELSE Zero
                ELSE IF RLt(live_neighbors, Rat(3, 1))
                     THEN Rat(k, 9) ELSE Zero
    IN  Returns(RMul(RAdd(Rat(1, 1), RMul(Rat(-1, 1), attenuation)), valx))

\* variant: the comparisons of the cell's band and of the sums are <=, >=
X_diffusion_rule_inclusive(cell_value, neighbors, k) ==
    LET live_neighbors == SumSeq(neighbors)
        valx == IF RLe(Rat(1, 2), cell_value) /\ RLe(cell_value, Rat(3, 2))
                THEN IF RLe(Rat(3, 2), live_neighbors) /\ RLe(live_neighbors, Rat(7, 2))
                     THEN Rat(k, 4) ELSE Zero
                ELSE IF RLe(Rat(3, 1), live_neighbors)
                     THEN Rat(k, 9) ELSE Zero
    IN  Returns(RMul(RAdd(Rat(1, 1), RMul(Rat(-1, 1), attenuation)), valx))

\* k is the value np.random.poisson returns if it is called
X_diffusion_rule(cell_value, neighbors, k) ==
    LET live_neighbors == SumSeq(neighbors)
        valx == IF RLt(Rat(1, 2), cell_value) /\ RLt(cell_value, Rat(3, 2))
                THEN IF RLt(Rat(3, 2), live_neighbors) /\ RLt(live_neighbors, Rat(7, 2))
                     THEN Rat(k, 4) ELSE Zero
                ELSE IF RLt(Rat(3, 1), live_neighbors)
                     THEN Rat(k, 9) ELSE Zero
    IN  Returns(RMul(RAdd(Rat(1, 1), RMul(Rat(-1, 1), attenuation)), valx))

\* np.max of a non-empty array: NaN if an element is NaN
RECURSIVE MaxSeq(_)
MaxSeq(s) ==
    IF Len(s) = 1 THEN Head(s)
    ELSE LET m == MaxSeq(Tail(s))
         IN  IF IsNaN(Head(s)) \/ IsNaN(m) THEN NaN
             ELSE IF RLt(m, Head(s)) THEN Head(s) ELSE m

\* a rule supplied by the caller through set_rule, one that can raise:
\*   def positive_max_rule(cell_value, neighbors):
\*       if not cell_value > 0: raise ValueError(cell_value)
\*       return np.max(neighbors)      # ValueError on an empty array
positive_max_rule(cell_value, neighbors) ==
    IF ~RLt(Zero, cell_value) THEN Raises
    ELSE IF neighbors = <<>> THEN Raises
    ELSE Returns(MaxSeq(neighbors))

Rules == {"default_diffusion_rule", "X_diffusion_rule", "positive_max_rule"}

\* the rules a caller passes to set_rule on a grid of r x c cells: the
\* stochastic rule is stepped on the grids of at most MaxDrawCells cells only
RulesFor(r, c) ==
    IF r * c <= MaxDrawCells THEN Rules ELSE Rules \ {"X_diffusion_rule"}

\* self.rule_func(cell_value, neighbors)
CallRule(rule, cell_value, neighbors, k) ==
    CASE rule = "default_diffusion_rule" -> default_diffusion_rule(cell_value, neighbors)
      [] rule = "X_diffusion_rule" -> X_diffusion_rule(cell_value, neighbors, k)
      [] rule = "positive_max_rule" -> positive_max_rule(cell_value, neighbors)

(***************************************************************************)
(* update.                                                                 *)
(***************************************************************************)
\* variant: the inner loop is range(cols - 1) on the last row
RowMajor_short ==
    [k \in 1..(rows * cols - 1) |-> <<(k - 1) \div cols, (k - 1) % cols>>]

\* the cells in the order of "for row in range(rows): for col in range(cols)"
RowMajor ==
    [k \in 1..(rows * cols) |-> <<(k - 1) \div cols, (k - 1) % cols>>]

\* the Poisson draw of a cell's rule evaluation (0 when the rule makes none)
Draw(draws, cell) == IF cell \in DOMAIN draws THEN draws[cell] ELSE 0

\* the body of the two nested loops of update() for the cells order[k..],
\* starting with the arrays holding h; stops at the first rule evaluation
\* that raises.  evals counts the rule evaluations made.
RECURSIVE UpdateLoop(_, _, _, _)
UpdateLoop(h, order, k, draws) ==
    IF k > Len(order) THEN [heap |-> h, raised |-> FALSE, evals |-> k - 1]
    ELSE LET cell == order[k]
             cell_value == h[current_grid][cell]
             neighbors == get_neighborhood(h, cell[1], cell[2], 1)
             res == CallRule(rule_func, cell_value, neighbors, Draw(draws, cell))
         IN  IF res.raised
             THEN [heap |-> h, raised |-> TRUE, evals |-> k]
             ELSE UpdateLoop([h EXCEPT ![next_grid][cell] = res.value],
                             order, k + 1, draws)

\* the cells whose rule evaluation calls np.random.poisson in this step
PoissonCells ==
    IF rule_func = "X_diffusion_rule"
    THEN {cell \in Cells :
            XDraws(heap[current_grid][cell],
                   get_neighborhood(heap, cell[1], cell[2], 1))}
    ELSE {}

DrawChoices == [PoissonCells -> 0..MaxDraw]

\* variant: the swap is done in a finally clause, also after an exception
update_swaps_on_error(draws) ==
    LET res == UpdateLoop(heap, RowMajor, 1, draws)
    IN  /\ heap' = res.heap
        /\ current_grid' = next_grid
        /\ next_grid' = current_grid
        /\ nupdates' = nupdates + 1
        /\ last' = [op |-> "update", raised |-> res.raised, evals |-> res.evals,
                    args |-> <<>>, ret |-> <<>>]

\* variant: the new values are copied into the current array (current[:] = next)
update_copies(draws) ==
    LET res == UpdateLoop(heap, RowMajor, 1, draws)
    IN  /\ heap' = IF res.raised THEN res.heap
                   ELSE [res.heap EXCEPT ![current_grid] = res.heap[next_grid]]
        /\ UNCHANGED <<current_grid, next_grid>>
        /\ nupdates' = nupdates + 1
        /\ last' = [op |-> "update", raised |-> res.raised, evals |-> res.evals,
                    args |-> <<>>, ret |-> <<>>]

\* update(): the loops, then the swap of the two references unless a rule
\* evaluation raised and the exception left update() before the swap
update(draws) ==
    LET res == UpdateLoop(heap, RowMajor, 1, draws)
    IN  /\ heap' = res.heap
        /\ IF res.raised
           THEN UNCHANGED <<current_grid, next_grid>>
           ELSE /\ current_grid' = next_grid
                /\ next_grid' = current_grid
        /\ nupdates' = nupdates + 1
        /\ last' = [op |-> "update", raised |-> res.raised, evals |-> res.evals,
                    args |-> <<>>, ret |-> <<>>]

(***************************************************************************)
(* initialize_grid, set_rule, set_colormap.                                *)
(***************************************************************************)
Modes == {"random", "uniform", "gradient"}

\* the keyword arguments of initialize_grid: <<>> or <<value>>
UniformValues == {Rat(1, 4)}

\* the calls of initialize_grid: <<mode, kwargs>>; value is passed with the
\* mode uniform only, as run() does
InitializeCalls ==
    {<<mode, <<>>>> : mode \in Modes} \cup {<<"uniform", <<v>>>> : v \in UniformValues}

\* variant: a final else branch that treats any other mode as uniform
InitCurrent_else_uniform(mode, kwargs, drawn) ==
    IF mode = "random" THEN [id |-> NewId({current_grid, next_grid}), grid |-> drawn]
    ELSE LET value == IF kwargs = <<>> THEN state_min ELSE kwargs[1]
         IN  [id |-> NewId({current_grid, next_grid}), grid |-> Full(rows, cols, value)]

\* variant: value defaults to state_max
InitCurrent_default_max(mode, kwargs, drawn) ==
    IF mode = "random" THEN [id |-> NewId({current_grid, next_grid}), grid |-> drawn]
    ELSE IF mode = "uniform"
    THEN LET value == IF kwargs = <<>> THEN state_max ELSE kwargs[1]
         IN  [id |-> NewId({current_grid, next_grid}), grid |-> Full(rows, cols, value)]
    ELSE [id |-> current_grid, grid |-> heap[current_grid]]

\* the array initialize_grid binds to self.current_grid: a new array for the
\* modes random and uniform (random is the grid drawn), else the old one
InitCurrent(mode, kwargs, drawn) ==
    IF mode = "random" THEN [id |-> NewId({current_grid, next_grid}), grid |-> drawn]
    ELSE IF mode = "uniform"
    THEN LET value == IF kwargs = <<>> THEN state_min ELSE kwargs[1]
         IN  [id |-> NewId({current_grid, next_grid}), grid |-> Full(rows, cols, value)]
    ELSE [id |-> current_grid, grid |-> heap[current_grid]]

initialize_grid(mode, kwargs, drawn) ==
    LET cur == InitCurrent(mode, kwargs, drawn)
        nxt == NewId({cur.id, next_grid})
    IN  /\ current_grid' = cur.id
        /\ next_grid' = nxt
        /\ heap' = [i \in Ids |-> IF i = cur.id THEN cur.grid
                                  ELSE IF i = nxt THEN ZerosLike(cur.grid)
                                  ELSE Free]

set_rule(rule) == rule_func' = rule

CmapCycle == <<"viridis", "plasma", "magma", "coolwarm", "twilight">>

CmapNames == {CmapCycle[i] : i \in 1..Len(CmapCycle)} \cup {"inferno"}

set_colormap(cmap_name) == cmap' = cmap_name

(***************************************************************************)
(* The calls a program makes on the object outside run().                  *)
(***************************************************************************)
runvars == <<pc, running, paused, frame>>

shape == <<rows, cols, state_min, state_max>>

CallInitializeGrid ==
    /\ pc = "idle"
    /\ \E call \in InitializeCalls :
         \E drawn \in (IF call[1] = "random"
                       THEN RandomGrids(rows, cols, state_min, state_max)
                       ELSE {heap[current_grid]}) :
           /\ initialize_grid(call[1], call[2], drawn)
           /\ last' = [op |-> "initialize_grid", raised |-> FALSE, evals |-> 0,
                       args |-> call, ret |-> <<>>]
    /\ UNCHANGED <<shape, rule_func, cmap, runvars, nupdates>>

CallSetRule ==
    /\ pc = "idle"
    /\ \E rule \in RulesFor(rows, cols) : set_rule(rule)
    /\ UNCHANGED <<shape, heap, current_grid, next_grid, cmap, runvars, last,
                   nupdates>>

ApiCmaps == {"viridis", "inferno"}

CallSetColormap ==
    /\ pc = "idle"
    /\ \E cmap_name \in ApiCmaps : set_colormap(cmap_name)
    /\ UNCHANGED <<shape, heap, current_grid, next_grid, rule_func, runvars,
                   last, nupdates>>

CallUpdate ==
    /\ pc = "idle"
    /\ nupdates < MaxUpdates
    /\ \E draws \in DrawChoices : update(draws)
    /\ UNCHANGED <<shape, rule_func, cmap, runvars>>

CallGetNeighborhood ==
    /\ pc = "idle"
    /\ \E cell \in Cells, radius \in 1..MaxRadius :
         last' = [op |-> "get_neighborhood", raised |-> FALSE, evals |-> 0,
                  args |-> <<cell[1], cell[2], radius>>,
                  ret |-> get_neighborhood(heap, cell[1], cell[2], radius)]
    /\ UNCHANGED <<shape, heap, current_grid, next_grid, rule_func, cmap,
                   runvars, nupdates>>

\* the arguments of a direct call of a rule: cell values on, inside and
\* outside the band 0.5 .. 1.5, and neighbors whose sums fall on, between
\* and outside 1.5, 3 and 3.5
RuleCells == {Rat(0, 1), Rat(1, 2), Rat(1, 1), Rat(3, 2), Rat(2, 1)}

RuleNeighborValues == {Rat(0, 1), Rat(1, 2), Rat(1, 1), Rat(3, 2), Rat(2, 1), Rat(3, 1)}

RuleNeighbors == UNION {[1..n -> RuleNeighborValues] : n \in 0..MaxNeighbors}

\* self.X_diffusion_rule(cell_value, neighbors) called directly, k being the
\* value np.random.poisson returns if the call reaches it.  The rule reads
\* and writes nothing of the object, so a call does not depend on the calls
\* before it: a behavior makes one.
CallXDiffusionRule ==
    /\ pc = "idle"
    /\ last.op = "__init__"
    /\ \E cell_value \in RuleCells, neighbors \in RuleNeighbors, k \in 0..MaxDraw :
         last' = [op |-> "X_diffusion_rule",
                  raised |-> X_diffusion_rule(cell_value, neighbors, k).raised,
                  evals |-> 1,
                  args |-> <<cell_value, neighbors, k>>,
                  ret |-> <<X_diffusion_rule(cell_value, neighbors, k).value>>]
    /\ UNCHANGED <<shape, heap, current_grid, next_grid, rule_func, cmap,
                   runvars, nupdates>>

\* cell values that are floats: the floats nearest to 0.3, 0.5, 0.6, 0.7, 1
FloatCells == {Fl(Rat(3, 10)), Fl(Rat(1, 2)), Fl(Rat(6, 10)), Fl(Rat(7, 10)), Fl(Rat(1, 1))}

\* the neighborhoods at radius 1 of a grid with at least two rows and two
\* columns have 3, 5 or 8 cells; all hold one value, or all but one do
FloatNeighbors ==
    {[k \in 1..n[1] |-> IF k = n[2] THEN v[1] ELSE v[2]] :
        n \in {<<3, 0>>, <<3, 2>>, <<5, 0>>, <<5, 1>>, <<8, 0>>, <<8, 8>>},
        v \in FloatCells \X FloatCells}

\* self.default_diffusion_rule(cell_value, neighbors), as update() calls it
\* for a cell, on float arguments; one call in a behavior, as for the other
\* rule
CallDefaultDiffusionRule ==
    /\ pc = "idle"
    /\ last.op = "__init__"
    /\ \E cell_value \in FloatCells, neighbors \in FloatNeighbors :
         last' = [op |-> "default_diffusion_rule",
                  raised |-> default_diffusion_rule_float(cell_value, neighbors).raised,
                  evals |-> 1,
                  args |-> <<cell_value, neighbors>>,
                  ret |-> <<default_diffusion_rule_float(cell_value, neighbors).value>>]
    /\ UNCHANGED <<shape, heap, current_grid, next_grid, rule_func, cmap,
                   runvars, nupdates>>

(***************************************************************************)
(* run(): the frame loop, one action per step of an iteration.             *)
(***************************************************************************)
NewFrame == [event |-> "none", updates |-> 0, draws |-> 0, shown |-> 0]

\* variant: run() without its call of initialize_grid
RunStart_keeps_grid ==
    /\ pc = "idle"
    /\ running' = TRUE
    /\ paused' = FALSE
    /\ frame' = NewFrame
    /\ pc' = "while"
    /\ UNCHANGED <<shape, heap, current_grid, next_grid, last, rule_func, cmap,
                   nupdates>>

\* running = True; paused = False; self.initialize_grid(mode='random')
RunStart ==
    /\ pc = "idle"
    /\ running' = TRUE
    /\ paused' = FALSE
    /\ \E drawn \in RandomGrids(rows, cols, state_min, state_max) :
         initialize_grid("random", <<>>, drawn)
    /\ last' = [op |-> "initialize_grid", raised |-> FALSE, evals |-> 0,
                args |-> <<"random", <<>>>>, ret |-> <<>>]
    /\ frame' = NewFrame
    /\ pc' = "while"
    /\ UNCHANGED <<shape, rule_func, cmap, nupdates>>

\* "while running:" and, when the loop is left, pygame.quit()
RunWhile ==
    /\ pc = "while"
    /\ pc' = IF running THEN "events" ELSE "done"
    /\ frame' = NewFrame
    /\ UNCHANGED <<shape, heap, current_grid, next_grid, rule_func, cmap,
                   running, paused, last, nupdates>>

Events == {"QUIT", "K_SPACE", "K_r", "K_c", "K_m", "K_other"}

\* variant: the index is decreased, cmaps[(index - 1) % len(cmaps)]
NextCmap_backwards(current_cmap) ==
    IF \E i \in 1..Len(CmapCycle) : CmapCycle[i] = current_cmap
    THEN LET idx == CHOOSE i \in 1..Len(CmapCycle) : CmapCycle[i] = current_cmap
         IN  CmapCycle[((idx + Len(CmapCycle) - 2) % Len(CmapCycle)) + 1]
    ELSE CmapCycle[1]

\* the colormap the m key selects
NextCmap(current_cmap) ==
    IF \E i \in 1..Len(CmapCycle) : CmapCycle[i] = current_cmap
    THEN LET idx == CHOOSE i \in 1..Len(CmapCycle) : CmapCycle[i] = current_cmap
         IN  CmapCycle[(idx % Len(CmapCycle)) + 1]
    ELSE CmapCycle[1]

\* variant: the QUIT branch is taken only while the loop is not paused
HandleEvent_quit_unless_paused(event) ==
    /\ running' = IF event = "QUIT" /\ ~paused THEN FALSE ELSE running
    /\ paused' = IF event = "K_SPACE" THEN ~paused ELSE paused
    /\ IF event = "K_r"
       THEN /\ \E drawn \in RandomGrids(rows, cols, state_min, state_max) :
                 initialize_grid("random", <<>>, drawn)
            /\ last' = [op |-> "initialize_grid", raised |-> FALSE, evals |-> 0,
                        args |-> <<"random", <<>>>>, ret |-> <<>>]
       ELSE IF event = "K_c"
       THEN /\ initialize_grid("uniform", <<state_min>>, heap[current_grid])
            /\ last' = [op |-> "initialize_grid", raised |-> FALSE, evals |-> 0,
                        args |-> <<"uniform", <<state_min>>>>, ret |-> <<>>]
       ELSE UNCHANGED <<heap, current_grid, next_grid, last>>
    /\ IF event = "K_m"
       THEN set_colormap(NextCmap(cmap))
       ELSE UNCHANGED cmap

\* the body of "for event in pygame.event.get():" for one event
HandleEvent(event) ==
    /\ running' = IF event = "QUIT" THEN FALSE ELSE running
    /\ paused' = IF event = "K_SPACE" THEN ~paused ELSE paused
    /\ IF event = "K_r"
       THEN /\ \E drawn \in RandomGrids(rows, cols, state_min, state_max) :
                 initialize_grid("random", <<>>, drawn)
            /\ last' = [op |-> "initialize_grid", raised |-> FALSE, evals |-> 0,
                        args |-> <<"random", <<>>>>, ret |-> <<>>]
       ELSE IF event = "K_c"
       THEN /\ initialize_grid("uniform", <<state_min>>, heap[current_grid])
            /\ last' = [op |-> "initialize_grid", raised |-> FALSE, evals |-> 0,
                        args |-> <<"uniform", <<state_min>>>>, ret |-> <<>>]
       ELSE UNCHANGED <<heap, current_grid, next_grid, last>>
    /\ IF event = "K_m"
       THEN set_colormap(NextCmap(cmap))
       ELSE UNCHANGED cmap

RunEvent ==
    /\ pc = "events"
    /\ \E event \in Events :
         /\ HandleEvent(event)
         /\ frame' = [frame EXCEPT !.event = event]
    /\ UNCHANGED <<shape, rule_func, pc, nupdates>>

\* the events of this iteration are exhausted
RunEventsDone ==
    /\ pc = "events"
    /\ pc' = "step"
    /\ frame' = [frame EXCEPT !.event = "none"]
    /\ UNCHANGED <<shape, heap, current_grid, next_grid, rule_func, cmap,
                   running, paused, last, nupdates>>

\* variant: update() is called whatever paused is
RunStep_ignores_pause ==
    /\ pc = "step"
    /\ nupdates < MaxUpdates
    /\ \E draws \in DrawChoices : update(draws)
    /\ frame' = [frame EXCEPT !.updates = @ + 1]
    /\ pc' = IF last'.raised THEN "raised" ELSE "draw"
    /\ UNCHANGED <<shape, rule_func, cmap, running, paused>>

\* "if not paused: self.update()"; an exception of the rule leaves run()
RunStep ==
    /\ pc = "step"
    /\ IF ~paused
       THEN /\ nupdates < MaxUpdates
            /\ \E draws \in DrawChoices : update(draws)
            /\ frame' = [frame EXCEPT !.updates = @ + 1]
            /\ pc' = IF last'.raised THEN "raised" ELSE "draw"
       ELSE /\ pc' = "draw"
            /\ UNCHANGED <<heap, current_grid, next_grid, frame, last, nupdates>>
    /\ UNCHANGED <<shape, rule_func, cmap, running, paused>>

\* self.draw(); self.clock.tick(self.fps): reads the grid, changes none of
\* the state; shown is the number of updates of this iteration draw() shows
RunDraw ==
    /\ pc = "draw"
    /\ frame' = [frame EXCEPT !.draws = @ + 1, !.shown = frame.updates]
    /\ pc' = "while"
    /\ UNCHANGED <<shape, heap, current_grid, next_grid, rule_func, cmap,
                   running, paused, last, nupdates>>

(***************************************************************************)
(* __init__.                                                               *)
(***************************************************************************)
DefaultRange == <<Rat(0, 1), Rat(1, 1)>>

ShiftedRange == <<Rat(1, 2), Rat(3, 2)>>

StateRanges == {DefaultRange, ShiftedRange}

\* the state after AdvancedCellularAutomaton(width, height, cell_size,
\* state_range, cmap_name, fps) with rows = height // cell_size and
\* cols = width // cell_size in row_dims and col_dims, state_range in
\* ranges with state_min < state_max, and cmap_name in cmap_names
Constructed(row_dims, col_dims, ranges, cmap_names) ==
    /\ rows \in row_dims
    /\ cols \in col_dims
    /\ \E state_range \in ranges :
         /\ state_min = state_range[1]
         /\ state_max = state_range[2]
    /\ current_grid = 1
    /\ next_grid = 2
    /\ \E g \in RandomGrids(rows, cols, state_min, state_max) :
         heap = [i \in Ids |-> IF i = 1 THEN g
                               ELSE IF i = 2 THEN ZerosLike(g) ELSE Free]
    /\ cmap \in cmap_names
    /\ rule_func = "default_diffusion_rule"
    /\ pc = "idle"
    /\ running = FALSE
    /\ paused = FALSE
    /\ frame = NewFrame
    /\ last = [op |-> "__init__", raised |-> FALSE, evals |-> 0,
               args |-> <<>>, ret |-> <<>>]
    /\ nupdates = 0

(***************************************************************************)
(* Specifications.  Spec is the whole program on the grids of one row and  *)
(* up to MaxRunDim columns: the calls a program makes after construction,  *)
(* then run().  SpecStep is the update engine alone: initialize_grid,      *)
(* set_rule and update, under the default state range; SpecCalls adds      *)
(* set_colormap, under a state range that does not start at zero.          *)
(* SpecDiffusion is the engine under the rule of construction, on grids    *)
(* up to MaxDim x MaxDim: update alone.                                    *)
(* SpecSampler is get_neighborhood called directly on those grids.         *)
(* SpecRule is the stochastic rule called directly on its arguments, and   *)
(* SpecFloat the diffusion rule called on the arguments update() gives it, *)
(* in float arithmetic.                                                    *)
(***************************************************************************)
Init == Constructed({1}, 1..MaxRunDim, {DefaultRange}, {"viridis", "inferno"})

Next ==
    \/ CallInitializeGrid
    \/ CallSetRule
    \/ RunStart
    \/ RunWhile
    \/ RunEvent
    \/ RunEventsDone
    \/ RunStep
    \/ RunDraw

Spec == Init /\ [][Next]_vars

\* the steps of RunStep, told by the control state alone: RunStep is the
\* only action that leaves "step", and it can whenever the loop is paused
\* or one more update is within MaxUpdates
RunStepTaken ==
    /\ pc = "step"
    /\ paused \/ nupdates < MaxUpdates
    /\ pc' \in {"draw", "raised"}

\* the program of __main__ with any rule, on the widest grid of Spec, and
\* run() under the scheduling of a Python thread: the list pygame.event.get()
\* returns is finite, so the for loop over it ends, and the statements that
\* follow it in the loop body (update, draw, the while test) are each
\* executed once control reaches them
InitFair == Constructed({1}, {MaxRunDim}, {DefaultRange}, {"inferno"})

NextFair ==
    \/ CallSetRule
    \/ RunStart
    \/ RunWhile
    \/ RunEvent
    \/ RunEventsDone
    \/ RunStep
    \/ RunDraw

SpecFair ==
    /\ InitFair
    /\ [][NextFair]_vars
    /\ WF_vars(RunEventsDone)
    /\ WF_pc(RunStepTaken)
    /\ WF_vars(RunDraw)
    /\ WF_vars(RunWhile)

InitStep == Constructed(1..MaxStepDim, 1..MaxStepDim, {DefaultRange}, {"viridis"})

NextStep ==
    \/ CallInitializeGrid
    \/ CallSetRule
    \/ CallUpdate

SpecStep == InitStep /\ [][NextStep]_vars

InitCalls == Constructed(1..MaxStepDim, 1..MaxStepDim, {ShiftedRange}, {"viridis"})

NextCalls ==
    \/ CallInitializeGrid
    \/ CallSetRule
    \/ CallSetColormap
    \/ CallUpdate

SpecCalls == InitCalls /\ [][NextCalls]_vars

InitDiffusion == Constructed(1..MaxDim, 1..MaxDim, StateRanges, {"viridis"})

NextDiffusion == CallUpdate

SpecDiffusion == InitDiffusion /\ [][NextDiffusion]_vars

InitSampler == Constructed(1..MaxDim, 1..MaxDim, StateRanges, {"viridis"})

NextSampler == CallGetNeighborhood

SpecSampler == InitSampler /\ [][NextSampler]_vars

InitRule == Constructed({1}, {1}, {DefaultRange}, {"viridis"})

NextRule == CallXDiffusionRule

SpecRule == InitRule /\ [][NextRule]_vars

InitFloat == Constructed({1}, {1}, {DefaultRange}, {"viridis"})

NextFloat == CallDefaultDiffusionRule

SpecFloat == InitFloat /\ [][NextFloat]_vars

(***************************************************************************)
(* Properties of update().                                                 *)
(***************************************************************************)
\* a step of the model in which update() was called
UpdateStepped == nupdates' = nupdates + 1

\* C1: if the rule raises for a cell during update(), the step does not
\* swap: current_grid is the same array with the same contents as before,
\* and next_grid, partially written, is still next_grid.
AbortedStepKeepsCurrent ==
    [][(UpdateStepped /\ last'.raised) =>
          /\ current_grid' = current_grid
          /\ next_grid' = next_grid
          /\ heap'[current_grid'] = heap[current_grid]]_vars

\* an update() raised after it had written a cell of next_grid
AbortedStepReached ==
    /\ last.op = "update"
    /\ last.raised
    /\ last.evals > 1
    /\ \E cell \in Cells : heap[next_grid][cell] # Zero

Reverse(seq) == [k \in 1..Len(seq) |-> seq[Len(seq) + 1 - k]]

ColMajor == [k \in 1..(rows * cols) |-> <<(k - 1) % rows, (k - 1) \div rows>>]

TraversalOrders == {Reverse(RowMajor), ColMajor}

\* contents next_grid may hold when a step starts
StaleGrids == {Full(rows, cols, v) : v \in {Rat(1, 1), NaN}}

\* what a step that visits the cells in the given order computes
StepResult(h, order, draws) ==
    LET res == UpdateLoop(h, order, 1, draws)
    IN  [raised |-> res.raised,
         current |-> res.heap[current_grid],
         new |-> IF res.raised THEN Free ELSE res.heap[next_grid]]

\* C2: a step computes every new value from the pre-step contents of
\* current_grid alone: in every state update() is called in, the step does
\* not write the array current_grid refers to, what next_grid holds has no
\* influence on the new values, and the result is the same for every order
\* in which the cells are visited.
StepReadsOnlyCurrent ==
    /\ []((pc = "idle" /\ nupdates < MaxUpdates) =>
           \A draws \in DrawChoices :
            LET ref == StepResult(heap, RowMajor, draws)
            IN  /\ ref.current = heap[current_grid]
                /\ \A order \in TraversalOrders :
                     StepResult(heap, order, draws) = ref
                /\ \A stale \in StaleGrids :
                     StepResult([heap EXCEPT ![next_grid] = stale],
                                RowMajor, draws).new = ref.new)
    /\ [][UpdateStepped => heap'[current_grid] = heap[current_grid]]_vars

\* a completed step on a grid whose cells differ, with old values in next_grid
OrderedStepReached ==
    /\ last.op = "update"
    /\ ~last.raised
    /\ rows > 1
    /\ cols > 1
    /\ nupdates > 1
    /\ \E c1 \in Cells, c2 \in Cells : heap[current_grid][c1] # heap[current_grid][c2]

\* C3: a completed update() exchanges the two references and copies no
\* value: the array that was current_grid is next_grid with its contents
\* untouched, the array that was next_grid is current_grid, and no other
\* array is written; this holds for every step of a run of steps.
StepSwapsBuffers ==
    [][(UpdateStepped /\ ~last'.raised) =>
          /\ current_grid' = next_grid
          /\ next_grid' = current_grid
          /\ current_grid' # next_grid'
          /\ \A i \in Ids \ {next_grid} : heap'[i] = heap[i]]_vars

\* a second completed step in a row
SecondSwapReached ==
    /\ last.op = "update"
    /\ ~last.raised
    /\ nupdates >= 2
    /\ heap[next_grid] # heap[current_grid]

\* C12: an update() in which no rule evaluation raises makes exactly
\* rows * cols rule evaluations, one for each cell, and every cell of the
\* array that becomes current_grid holds the rule's value for that cell's
\* old value and old neighbors: nothing of the old next_grid is left.
StepWritesEveryCell ==
    /\ [](/\ Len(RowMajor) = rows * cols
          /\ \A cell \in Cells :
               Cardinality({k \in 1..Len(RowMajor) : RowMajor[k] = cell}) = 1)
    /\ [][(UpdateStepped /\ ~last'.raised) =>
            /\ last'.evals = rows * cols
            /\ \E draws \in DrawChoices :
                 \A cell \in Cells :
                   heap'[current_grid'][cell] =
                     CallRule(rule_func, heap[current_grid][cell],
                              get_neighborhood(heap, cell[1], cell[2], 1),
                              Draw(draws, cell)).value]_vars

\* a completed second step on a grid of at least four cells, made over a
\* buffer that held the values of the step before
FullRewriteReached ==
    /\ last.op = "update"
    /\ ~last.raised
    /\ last.evals = rows * cols
    /\ rows * cols >= 4
    /\ nupdates >= 2
    /\ rule_func = "default_diffusion_rule"
    /\ \E c1 \in Cells, c2 \in Cells : heap[current_grid][c1] # heap[current_grid][c2]

(***************************************************************************)
(* Properties of get_neighborhood.                                         *)
(***************************************************************************)
\* C4: on a grid with at least two rows and two columns (so on every grid
\* with rows, cols >= 3), get_neighborhood at radius 1 returns exactly 8
\* values for an interior cell, exactly 3 for a corner cell and exactly 5
\* for an edge cell that is not a corner.
NeighborCounts ==
    (last.op = "get_neighborhood" /\ last.args[3] = 1 /\ rows >= 2 /\ cols >= 2) =>
        LET onRowEdge == last.args[1] \in {0, rows - 1}
            onColEdge == last.args[2] \in {0, cols - 1}
        IN  Len(last.ret) = IF onRowEdge /\ onColEdge THEN 3
                            ELSE IF onRowEdge \/ onColEdge THEN 5
                            ELSE 8

\* get_neighborhood has returned for an interior cell of a 3 x 3 grid
InteriorSampled ==
    /\ last.op = "get_neighborhood"
    /\ last.args = <<1, 1, 1>>
    /\ rows = 3
    /\ cols = 3
    /\ Len(last.ret) = 8

\* the in-bounds cells within radius of (row, col), the cell itself left out
Window(row, col, radius) ==
    {other \in Cells : /\ other # <<row, col>>
                       /\ Abs(other[1] - row) <= radius
                       /\ Abs(other[2] - col) <= radius}

\* the number of cells of a set that come before a cell, by row then column
Before(cell, among) ==
    Cardinality({other \in among : \/ other[1] < cell[1]
                                   \/ other[1] = cell[1] /\ other[2] < cell[2]})

\* C11: get_neighborhood(row, col, radius) returns the values of the
\* in-bounds cells (row+di, col+dj) with di, dj in -radius..radius and
\* (di, dj) # (0, 0), each once, by di ascending then dj ascending; a
\* position outside the grid contributes nothing.
NeighborhoodIsWindow ==
    last.op = "get_neighborhood" =>
        LET among == Window(last.args[1], last.args[2], last.args[3])
        IN  /\ Len(last.ret) = Cardinality(among)
            /\ \A cell \in among :
                 last.ret[Before(cell, among) + 1] = heap[current_grid][cell]

\* a corner cell of a 3 x 3 grid sampled at radius 2, the window cut by the
\* grid's edges, with the one cell that differs in the middle of the result
ClippedWindowSampled ==
    /\ last.op = "get_neighborhood"
    /\ last.args = <<0, 0, 2>>
    /\ rows = 3
    /\ cols = 3
    /\ Len(last.ret) = 8
    /\ last.ret[3] # last.ret[1]
    /\ last.ret[3] # last.ret[4]
    /\ heap[current_grid][<<1, 0>>] = last.ret[3]

(***************************************************************************)
(* Properties of the diffusion rule.                                       *)
(***************************************************************************)
\* the in-bounds cells at distance 1 of a cell
Around(cell) ==
    {other \in Cells : /\ other # cell
                       /\ Abs(other[1] - cell[1]) <= 1
                       /\ Abs(other[2] - cell[2]) <= 1}

RECURSIVE SumOver(_, _)
SumOver(grid, cells) ==
    IF cells = {} THEN Zero
    ELSE LET cell == CHOOSE c \in cells : TRUE
         IN  RAdd(grid[cell], SumOver(grid, cells \ {cell}))

\* 0.9 * old[cell] + 0.1 * mean of old over the in-bounds neighbours
Diffused(old, cell) ==
    RAdd(RMul(Rat(9, 10), old[cell]),
         RMul(Rat(1, 10), RMul(SumOver(old, Around(cell)),
                               Rat(1, Cardinality(Around(cell))))))

\* the 3 x 3 grid of 0.5 with centre 1.0, and what one step makes of it
HalfGridHotCentre ==
    [cell \in CellsOf(3, 3) |-> IF cell = <<1, 1>> THEN Rat(1, 1) ELSE Rat(1, 2)]

HalfGridHotCentreStepped ==
    [cell \in CellsOf(3, 3) |->
        IF cell = <<1, 1>> THEN Rat(95, 100)
        ELSE IF cell[1] # 1 /\ cell[2] # 1
             THEN RAdd(Rat(45, 100), RMul(Rat(1, 10), Rat(2, 3)))
             ELSE Rat(51, 100)]

\* C5: under the diffusion rule a completed update() leaves in every cell
\* with a non-empty neighbourhood 0.9 * old + 0.1 * mean(old in-bounds
\* neighbours); the 3 x 3 grid of 0.5 with centre 1.0 becomes 0.95 at the
\* centre, 0.51 at the edge cells and 0.45 + 0.1 * (2/3) at the corners.
DiffusionStep ==
    [][(UpdateStepped /\ rule_func = "default_diffusion_rule") =>
          /\ \A cell \in Cells :
               Around(cell) # {} =>
                 heap'[current_grid'][cell] = Diffused(heap[current_grid], cell)
          /\ heap[current_grid] = HalfGridHotCentre =>
               heap'[current_grid'] = HalfGridHotCentreStepped]_vars

\* the step of the 3 x 3 scenario has been made
HotCentreStepped ==
    /\ last.op = "update"
    /\ rule_func = "default_diffusion_rule"
    /\ heap[next_grid] = HalfGridHotCentre
    /\ heap[current_grid][<<1, 1>>] = Rat(19, 20)
    /\ heap[current_grid][<<0, 1>>] = Rat(51, 100)
    /\ heap[current_grid][<<0, 0>>] = Rat(31, 60)

\* C6: on a 1 x 1 grid get_neighborhood returns the empty sequence and the
\* diffusion rule fails on it with an error, so update() does not commit
\* and no NaN is ever stored in a grid.
EmptyNeighborhoodRaises ==
    (rows = 1 /\ cols = 1 /\ rule_func = "default_diffusion_rule") =>
        /\ get_neighborhood(heap, 0, 0, 1) = <<>>
        /\ last.op = "update" => last.raised
        /\ ~IsNaN(heap[current_grid][<<0, 0>>])
        /\ ~IsNaN(heap[next_grid][<<0, 0>>])

\* the values a rule evaluation reads: the cell's and its neighbors'
Inputs == {last.args[1]} \cup {last.args[2][k] : k \in 1..Len(last.args[2])}

Lowest(values) == CHOOSE x \in values : \A y \in values : RLe(x, y)

Highest(values) == CHOOSE x \in values : \A y \in values : RLe(y, x)

\* the relative error of one rounding is at most 2^-MantissaBits
Roundoff == Rat(1, Pow2(MantissaBits))

Between(lo, x, hi) == RLt(lo, x) /\ RLt(x, hi)

\* C13: for a draw k, X_diffusion_rule returns 0.97 * k / 4 when
\* 0.5 < cell < 1.5 and 1.5 < sum(neighbors) < 3.5, 0.97 * k / 9 when the
\* cell is not in that band and sum(neighbors) > 3, and 0 in every other
\* case; a cell of 0.5 or 1.5 is outside the band, and sums of 1.5, 3.5
\* (in the band) and 3 (outside it) give 0.
StochasticRuleValue ==
    last.op = "X_diffusion_rule" =>
        LET cell_value == last.args[1]
            total == SumSeq(last.args[2])
            k == last.args[3]
            ret_val == last.ret[1]
        IN  /\ ~last.raised
            /\ IF Between(Rat(1, 2), cell_value, Rat(3, 2))
               THEN IF Between(Rat(3, 2), total, Rat(7, 2))
                    THEN ret_val = Rat(97 * k, 400)
                    ELSE ret_val = Zero
               ELSE IF RLt(Rat(3, 1), total)
                    THEN ret_val = Rat(97 * k, 900)
                    ELSE ret_val = Zero
            /\ (cell_value \in {Rat(1, 2), Rat(3, 2)} /\ ~RLt(Rat(3, 1), total))
                 => ret_val = Zero
            /\ (cell_value \in {Rat(1, 2), Rat(3, 2)} /\ RLt(Rat(3, 1), total))
                 => ret_val = Rat(97 * k, 900)
            /\ total \in {Rat(3, 2), Rat(7, 2), Rat(3, 1)} =>
                 ret_val = IF total = Rat(3, 1) /\ cell_value = Rat(1, 1)
                           THEN Rat(97 * k, 400)
                           ELSE IF total = Rat(7, 2) /\ cell_value # Rat(1, 1)
                           THEN Rat(97 * k, 900)
                           ELSE Zero

\* the rule has kept a draw on a cell of 1.5, which is outside the band,
\* with neighbors that sum to 3.5
BandEdgeDrawKept ==
    /\ last.op = "X_diffusion_rule"
    /\ last.args[1] = Rat(3, 2)
    /\ SumSeq(last.args[2]) = Rat(7, 2)
    /\ last.args[3] = 1
    /\ last.ret = <<Rat(97, 900)>>

\* every cell of current_grid is 0
AllZero == heap[current_grid] = Full(rows, cols, Zero)

\* C16: when every cell of current_grid is 0, X_diffusion_rule returns 0
\* for every cell whatever np.random.poisson would return, and an update()
\* under that rule raises nothing and ends with every cell of current_grid
\* 0 again; so the grid stays all zero through any number of steps.
ZeroGridAbsorbing ==
    /\ []((pc = "idle" /\ AllZero) =>
            \A cell \in Cells, k \in 0..MaxDraw :
              X_diffusion_rule(heap[current_grid][cell],
                               get_neighborhood(heap, cell[1], cell[2], 1),
                               k) = Returns(Zero))
    /\ [][(UpdateStepped /\ rule_func = "X_diffusion_rule" /\ AllZero) =>
            /\ ~last'.raised
            /\ AllZero']_vars

\* two steps in a row under X_diffusion_rule that began and ended with an
\* all-zero grid of more than one cell
ZeroGridSteppedTwice ==
    /\ last.op = "update"
    /\ ~last.raised
    /\ rule_func = "X_diffusion_rule"
    /\ nupdates >= 2
    /\ rows * cols > 1
    /\ AllZero
    /\ heap[next_grid] = Full(rows, cols, Zero)

(***************************************************************************)
(* Properties of initialize_grid.                                          *)
(***************************************************************************)
\* a step of the model in which initialize_grid was called with this mode:
\* a step outside run() that is not one of update, set_rule or set_colormap
Initialized(mode) ==
    /\ pc = "idle"
    /\ pc' = "idle"
    /\ nupdates' = nupdates
    /\ rule_func' = rule_func
    /\ cmap' = cmap
    /\ last'.op = "initialize_grid"
    /\ last'.args[1] = mode

\* C7 as stated: a call with a mode other than random and uniform leaves
\* the contents of both grids as they were.
UnknownModeChangesNothing ==
    [][Initialized("gradient") =>
          /\ heap'[current_grid'] = heap[current_grid]
          /\ heap'[next_grid'] = heap[next_grid]]_vars

\* C7 as amended: a call with a mode other than random and uniform raises
\* nothing and leaves current_grid the same array with the same contents,
\* but replaces next_grid by a new array of zeros of the same shape.
UnknownModeKeepsCurrent ==
    [][Initialized("gradient") =>
          /\ ~last'.raised
          /\ current_grid' = current_grid
          /\ heap'[current_grid'] = heap[current_grid]
          /\ next_grid' \notin {current_grid, next_grid}
          /\ heap'[next_grid'] = Full(rows, cols, Zero)]_vars

\* the call with an unknown mode was made after a step left values in next_grid
UnknownModeAfterStep ==
    /\ last.op = "initialize_grid"
    /\ last.args[1] = "gradient"
    /\ nupdates > 0
    /\ \E cell \in Cells : heap[current_grid][cell] # Zero
    /\ heap[next_grid] = Full(rows, cols, Zero)

\* C8: from any state, initialize_grid('uniform', value=v) makes every cell
\* of current_grid v, with v = state_min when omitted; initialize_grid
\* ('random') makes every cell lie in [state_min, state_max); in both cases
\* current_grid is a new array of rows x cols cells and next_grid is all
\* zeros.
InitializeFillsGrid ==
    [][(Initialized("uniform") \/ Initialized("random")) =>
          /\ current_grid' \notin {current_grid, next_grid}
          /\ DOMAIN heap'[current_grid'] = Cells
          /\ heap'[next_grid'] = Full(rows, cols, Zero)
          /\ next_grid' # current_grid'
          /\ last'.args[1] = "uniform" =>
               \A cell \in Cells :
                 heap'[current_grid'][cell] =
                   IF last'.args[2] = <<>> THEN state_min ELSE last'.args[2][1]
          /\ last'.args[1] = "random" =>
               \A cell \in Cells :
                 /\ RLe(state_min, heap'[current_grid'][cell])
                 /\ RLt(heap'[current_grid'][cell], state_max)]_vars

\* uniform without a value was called on a grid that steps had changed
UniformDefaultReached ==
    /\ last.op = "initialize_grid"
    /\ last.args = <<"uniform", <<>>>>
    /\ nupdates > 0
    /\ heap[current_grid] = Full(rows, cols, state_min)
    /\ state_min # Zero

\* C9: whatever calls of initialize_grid, set_rule, set_colormap and update
\* follow the construction, rows and cols keep their values and
\* current_grid and next_grid both have rows x cols cells.
ShapeIsKept ==
    [][/\ rows' = rows
       /\ cols' = cols
       /\ DOMAIN heap'[current_grid'] = CellsOf(rows, cols)
       /\ DOMAIN heap'[next_grid'] = CellsOf(rows, cols)]_vars

\* a grid that is not square, after a step, a uniform fill and set_colormap
ShapeKeptReached ==
    /\ rows # cols
    /\ nupdates > 0
    /\ last.op = "initialize_grid"
    /\ last.args[1] = "uniform"
    /\ cmap = "inferno"
    /\ rule_func # "default_diffusion_rule"

(***************************************************************************)
(* Properties of run().                                                    *)
(***************************************************************************)
grids == <<heap, current_grid, next_grid>>

\* C10: in every iteration of the frame loop that reaches its end, update()
\* has run once if paused was false when the events had been handled and
\* not at all if it was true, and draw() has run once, after it; while
\* paused stays true the grids change only in the handler of the r or the c
\* key; the space key, and nothing else in the loop, negates paused.
FrameLoopObeysPause ==
    [][/\ (pc = "draw" /\ pc' = "while") =>
            /\ frame'.draws = 1
            /\ frame'.updates = IF paused THEN 0 ELSE 1
            /\ frame'.shown = frame'.updates
       /\ (pc' = "draw") => frame'.draws = 0
       /\ (pc # "idle" /\ paused /\ paused' /\ grids' # grids) =>
            /\ pc = "events"
            /\ frame'.event \in {"K_r", "K_c"}
            /\ last'.op = "initialize_grid"
       /\ (pc = "events" /\ pc' = "events" /\ frame'.event = "K_SPACE"
             /\ vars' # vars) => paused' = ~paused
       /\ (pc # "idle" /\ paused' # paused) =>
            (pc = "events" /\ frame'.event = "K_SPACE")]_vars

\* an iteration ended without an update because space had paused the loop,
\* after an earlier iteration had made one
PausedFrameReached ==
    /\ pc = "while"
    /\ paused
    /\ frame.draws = 1
    /\ frame.updates = 0
    /\ nupdates > 0

\* C17: the rule is default_diffusion_rule after construction and changes
\* only in a call of set_rule outside run(), never in run() nor in the
\* handler of an event; when run() starts, current_grid becomes a new array
\* drawn as the mode random draws it and next_grid a new all-zero array,
\* whatever initialize_grid had put there before.
RunResetsGridKeepsRule ==
    /\ rule_func = "default_diffusion_rule"
    /\ [][/\ (rule_func' # rule_func) =>
               /\ pc = "idle"
               /\ pc' = "idle"
               /\ UNCHANGED <<heap, current_grid, next_grid, last, nupdates>>
          /\ (pc = "idle" /\ pc' # "idle") =>
               /\ pc' = "while"
               /\ rule_func' = rule_func
               /\ current_grid' \notin {current_grid, next_grid}
               /\ next_grid' \notin {current_grid', next_grid}
               /\ heap'[current_grid'] \in
                     RandomGrids(rows, cols, state_min, state_max)
               /\ heap'[next_grid'] = Full(rows, cols, Zero)
               /\ last'.op = "initialize_grid"
               /\ last'.args = <<"random", <<>>>>]_vars

\* run() is about to begin its first iteration, after calls of set_rule and
\* of initialize_grid('uniform', value=0.25): the grid is not the uniform
\* one (current_grid is the second array allocated since construction) and
\* the rule is the one set
RunStartedAfterCalls ==
    /\ pc = "while"
    /\ running
    /\ nupdates = 0
    /\ frame = NewFrame
    /\ current_grid = 2
    /\ heap[current_grid] # Full(rows, cols, Rat(1, 4))
    /\ rule_func = "positive_max_rule"

\* the colormap that follows each one in the cycle of the m key
Following ==
    [name \in {"viridis", "plasma", "magma", "coolwarm", "twilight", "inferno"} |->
        CASE name = "viridis" -> "plasma"
          [] name = "plasma" -> "magma"
          [] name = "magma" -> "coolwarm"
          [] name = "coolwarm" -> "twilight"
          [] name = "twilight" -> "viridis"
          [] name = "inferno" -> "viridis"]

\* C18: the handler of the m key sets the colormap to the one that follows
\* the current one in viridis, plasma, magma, coolwarm, twilight, viridis
\* after twilight and viridis when the current one is not listed, and
\* leaves the grids, the rule, paused and running as they are; no other
\* step of run() changes the colormap; five presses from a listed colormap
\* give that colormap again.
MKeyCyclesColormap ==
    /\ [](cmap # "inferno" =>
            NextCmap(NextCmap(NextCmap(NextCmap(NextCmap(cmap))))) = cmap)
    /\ [][/\ (pc = "events" /\ pc' = "events" /\ frame'.event = "K_m") =>
               /\ cmap' = Following[cmap]
               /\ UNCHANGED <<heap, current_grid, next_grid, rule_func, paused,
                              running, last, nupdates>>
          /\ (pc # "idle" /\ cmap' # cmap) =>
               (pc = "events" /\ pc' = "events" /\ frame'.event = "K_m")]_vars

\* the m key has been pressed four times in a paused loop that had made an
\* update: the colormap is the last of the cycle
LastOfCycleReached ==
    /\ pc = "events"
    /\ frame.event = "K_m"
    /\ cmap = "twilight"
    /\ paused
    /\ nupdates > 0

\* run() has been left: by the end of the loop or by an exception of the rule
Left == pc \in {"done", "raised"}

\* C14: a QUIT event handled by run() clears running, whatever paused is
\* and whatever events are handled after it; running stays false, no
\* iteration of the loop is begun while it is false, and run() is left
\* after the iteration that handled the QUIT (in the model, provided that
\* iteration's update is within MaxUpdates).
QuitEndsLoop ==
    /\ [][/\ (pc = "events" /\ pc' = "events" /\ frame'.event = "QUIT"
               /\ frame.event # "QUIT") => ~running'
          /\ (pc # "idle" /\ ~running) => ~running'
          /\ (pc # "idle" /\ ~running /\ pc # "events") => pc' # "events"]_vars
    /\ ((pc = "events" /\ frame.event = "QUIT" /\ nupdates < MaxUpdates) ~> Left)

\* the loop has ended on a QUIT received while it was paused, after an
\* earlier iteration had made an update
QuitWhilePausedReached ==
    /\ pc = "done"
    /\ ~running
    /\ paused
    /\ nupdates > 0

====
